---- MODULE Spec2Model ----
(***************************************************************************)
(* A model of the Cortana front end: the realtime traffic map components   *)
(* (Map in components/traffic-lights-map.tsx, TrafficMap in                *)
(* app/traffic/page.tsx), the dispatch page, and the timer-driven mock     *)
(* panels of the Home page.                                                *)
(*                                                                         *)
(* JavaScript values are tagged records [k, v]: k is the type ("num",      *)
(* "str", "null", "undef", "nan", "arr"), v the payload.  A string that is *)
(* parsed is a sequence of one-character strings.                          *)
(***************************************************************************)
EXTENDS Integers, Sequences, FiniteSets, TLC

(***************************************************************************)
(* JavaScript values and conversions                                       *)
(***************************************************************************)
Num(n) == [k |-> "num", v |-> n]
Str(s) == [k |-> "str", v |-> s]
Arr(a) == [k |-> "arr", v |-> a]
Null == [k |-> "null", v |-> 0]
Undefined == [k |-> "undef", v |-> 0]
NaN == [k |-> "nan", v |-> 0]

DigitChars == <<"0", "1", "2", "3", "4", "5", "6", "7", "8", "9">>

IsDigit(c) == \E i \in 1..10 : DigitChars[i] = c

DigitVal(c) == (CHOOSE i \in 1..10 : DigitChars[i] = c) - 1

IsWhite(c) == c = " "

Max(S) == CHOOSE m \in S : \A o \in S : o <= m

Min(S) == CHOOSE m \in S : \A o \in S : m <= o

\* s without its leading white space
TrimStart(s) ==
    LET firstNonWhite == {i \in 1..Len(s) : ~IsWhite(s[i])}
    IN  IF firstNonWhite = {} THEN <<>> ELSE SubSeq(s, Min(firstNonWhite), Len(s))

\* s without its trailing white space
TrimEnd(s) ==
    LET nonWhite == {i \in 1..Len(s) : ~IsWhite(s[i])}
    IN  IF nonWhite = {} THEN <<>> ELSE SubSeq(s, 1, Max(nonWhite))

\* the length of the longest prefix of s that consists of decimal digits
DigitPrefixLen(s) ==
    LET stops == {i \in 1..Len(s) : ~IsDigit(s[i])}
    IN  IF stops = {} THEN Len(s) ELSE Min(stops) - 1

RECURSIVE DigitsValue(_)
DigitsValue(s) ==
    IF s = <<>> THEN 0
    ELSE 10 * DigitsValue(SubSeq(s, 1, Len(s) - 1)) + DigitVal(s[Len(s)])

RECURSIVE NatToChars(_)
NatToChars(n) ==
    IF n < 10 THEN <<DigitChars[n + 1]>>
    ELSE NatToChars(n \div 10) \o <<DigitChars[(n % 10) + 1]>>

\* ToString of an integer
IntToChars(n) == IF n < 0 THEN <<"-">> \o NatToChars(-n) ELSE NatToChars(n)

\* parseInt(s, 10) of a character sequence
ParseIntChars(s) ==
    LET t == TrimStart(s)
        neg == t # <<>> /\ t[1] = "-"
        signed == t # <<>> /\ t[1] \in {"-", "+"}
        body == IF signed THEN Tail(t) ELSE t
        n == DigitPrefixLen(body)
    IN  IF n = 0 THEN NaN
        ELSE Num((IF neg THEN -1 ELSE 1) * DigitsValue(SubSeq(body, 1, n)))

\* parseInt(x, 10): the argument is converted to a string first
ParseInt(x) ==
    CASE x.k = "str" -> ParseIntChars(x.v)
      [] x.k = "num" -> ParseIntChars(IntToChars(x.v))
      [] OTHER -> NaN

\* Number(s) of a character sequence: the whole trimmed string is the numeral
StringToNumber(s) ==
    LET t == TrimEnd(TrimStart(s))
        neg == t # <<>> /\ t[1] = "-"
        signed == t # <<>> /\ t[1] \in {"-", "+"}
        body == IF signed THEN Tail(t) ELSE t
    IN  IF t = <<>> THEN Num(0)
        ELSE IF body = <<>> \/ DigitPrefixLen(body) # Len(body) THEN NaN
        ELSE Num((IF neg THEN -1 ELSE 1) * DigitsValue(body))

\* Number(x)
ToNumber(x) ==
    CASE x.k = "num" -> x
      [] x.k = "str" -> StringToNumber(x.v)
      [] x.k = "null" -> Num(0)
      [] OTHER -> NaN

\* a decimal number m * 10^e, and the infinities
Dec(m, e) == [k |-> "dec", m |-> m, e |-> e]

Infinity(sign) == [k |-> "inf", m |-> sign, e |-> 0]

RECURSIVE Pow10(_)
Pow10(n) == IF n <= 0 THEN 1 ELSE 10 * Pow10(n - 1)

\* the one representation of m * 10^e: m carries no trailing zero
RECURSIVE Normal(_, _)
Normal(m, e) ==
    IF m = 0 THEN Dec(0, 0)
    ELSE IF m % 10 = 0 THEN Normal(m \div 10, e + 1)
    ELSE Dec(m, e)

InfinityChars == <<"I", "n", "f", "i", "n", "i", "t", "y">>

StartsWith(s, prefix) == Len(s) >= Len(prefix) /\ SubSeq(s, 1, Len(prefix)) = prefix

\* the value of the decimal literal with the digits int before and frac after
\* the point, and the exponent exp
DecimalValue(int, frac, exp) == Normal(DigitsValue(int \o frac), exp - Len(frac))

\* the value of the exponent part that s begins with (e, sign, digits), 0 if there is none
ExponentOf(s) ==
    IF Len(s) >= 2 /\ s[1] \in {"e", "E"}
    THEN LET digits == SubSeq(s, IF s[2] \in {"-", "+"} THEN 3 ELSE 2, Len(s))
         IN  IF DigitPrefixLen(digits) = 0 THEN 0
             ELSE (IF s[2] = "-" THEN -1 ELSE 1) * DigitsValue(SubSeq(digits, 1, DigitPrefixLen(digits)))
    ELSE 0

\* the number that the longest unsigned decimal literal at the start of body stands for
UnsignedFloat(body) ==
    LET ni == DigitPrefixLen(body)
        hasDot == Len(body) > ni /\ body[ni + 1] = "."
        nf == IF hasDot THEN DigitPrefixLen(SubSeq(body, ni + 2, Len(body))) ELSE 0
        literalLen == ni + (IF hasDot THEN 1 + nf ELSE 0)
    IN  IF StartsWith(body, InfinityChars) THEN Infinity(1)
        ELSE IF ni + nf = 0 THEN NaN
        ELSE DecimalValue(SubSeq(body, 1, ni), SubSeq(body, ni + 2, ni + 1 + nf),
                          ExponentOf(SubSeq(body, literalLen + 1, Len(body))))

\* -x
Negated(x) == IF x.k = "nan" THEN x ELSE [x EXCEPT !.m = 0 - x.m]

\* parseFloat(s) of a character sequence: the longest prefix that is a decimal
\* literal (white space, sign, digits, fraction, exponent), NaN if there is none
ParseFloatChars(s) ==
    LET t == TrimStart(s)
    IN  IF t # <<>> /\ t[1] = "-" THEN Negated(UnsignedFloat(Tail(t)))
        ELSE IF t # <<>> /\ t[1] = "+" THEN UnsignedFloat(Tail(t))
        ELSE UnsignedFloat(t)

\* x < n and x > n for a parsed number x and an integer n
LessThan(x, n) ==
    CASE x.k = "inf" -> x.m < 0
      [] x.k = "dec" -> IF x.e >= 0 THEN x.m * Pow10(x.e) < n ELSE x.m < n * Pow10(0 - x.e)
      [] OTHER -> FALSE

GreaterThan(x, n) ==
    CASE x.k = "inf" -> x.m > 0
      [] x.k = "dec" -> IF x.e >= 0 THEN x.m * Pow10(x.e) > n ELSE x.m > n * Pow10(0 - x.e)
      [] OTHER -> FALSE

\* isNaN(x) of a number value
IsNaN(x) == x.k = "nan"

\* x ?? d
Coalesce(x, d) == IF x.k \in {"null", "undef"} THEN d ELSE x

(***************************************************************************)
(* State                                                                   *)
(***************************************************************************)
VARIABLES
    page,           \* the mounted page component: "Map", "TrafficMap", "Dispatch", "Home"
    logged,         \* what console.error / console.warn have reported: a set of tags
    \* the backend table and the paginated snapshot fetch
    table,          \* road_segments in id order: a sequence of rows [osmid, val]
    fpc,            \* fetchInitialSupabaseData: "idle", "request" (sent), "response" (answer in flight), "returned"
    from,           \* its local from
    allRows,        \* its local allRows
    got,            \* its local got
    inflight,       \* the answer to the awaited page request: [err, data]
    fresult,        \* the value it returned
    requests,       \* the ranges <<from, to>> it has requested, in order
    \* the realtime map components
    mapRef,         \* mapRef.current: "map" or "null"
    mapRemoved,     \* map.remove() has been called on the map object
    isMapLoaded,    \* isMapLoadedRef.current
    channelState,   \* the realtime channel: "subscribed", "removing", "removed"
    channel,        \* change notifications in flight (payload.new), in backend order
    changes,        \* how many changes the backend has made
    lpc,            \* the load handler: "waitLoad", "fetchGeo", "jsonGeo", "snapshot", "done", "aborted"
    rawFeatures,    \* the features of /data/sf_traffic_map.json
    sourceData,     \* the features handed to source.setData
    featureState,   \* the map's feature state: feature id -> value of viz_color / traffic_level
    styleLoaded,    \* map.isStyleLoaded()
    fitted,         \* fitBounds has been called
    removedOps,     \* the operations invoked on the map after map.remove()
    lastNotif,      \* feature id -> the value of the last notification delivered for it after 'load'
    \* the dispatch page (DispatchPage in app/store.ts)
    vehicles,       \* the vehicles state: a sequence of [name, status]
    isLoading,
    error,          \* "null" or the message
    dispatchStatusMessage,
    dispatchError,  \* "null" or the message
    latitude,       \* the form fields, character sequences
    longitude,
    isDispatching,
    selectedVehicleName,  \* "null" or a vehicle's name
    effectSel,      \* the selectedVehicleName that the fetchVehicles of the polling effect closes over
    gets,           \* the GET /vehicles requests in the order they were started: [st, sel, by, ok, payload]
    lastGet,        \* how the fetchVehicles that completed last ended: "none", "ok", "failed"
    fleet,          \* the backend's vehicles
    fleetChanges,   \* how often the backend's vehicles have changed
    post,           \* the POST /report/incident of handleDispatch: [st, sel, outcome]
    submitted,      \* the submissions: the fields' contents and the request body sent, if one was
    \* the Home page and its panels
    homeMounted,    \* Home is mounted, and CityMap and TrafficLightStatus with it
    tab,            \* the selected tab: "emergency", "ai", "reports"
    activeEmergency,
    emergencyType,  \* "null" or the type
    isSimulationRunning,
    simulationTime,
    incidentReports,  \* the types of the reported incidents, the newest first
    timers,         \* the pending timers: [kind, inst, idx, rem, arg], rem the milliseconds left
    lastFired,      \* the timer whose callback ran in the last step, if one did
    aiMounted,      \* AIReasoningPanel is mounted: its tab is selected
    aiInst,         \* the number of the mounted (or last mounted) instance of AIReasoningPanel
    reasoningSteps, \* the numbers of the steps in AIReasoningPanel's list
    isThinking,
    agents,         \* TrafficLightStatus: agent -> [status, message]
    rafPending      \* CityMap has an animation frame requested

fetchVars == <<fpc, from, allRows, got, inflight, fresult, requests>>

mapVars == <<mapRef, mapRemoved, isMapLoaded, channelState, channel, changes, lpc,
             rawFeatures, sourceData, featureState, styleLoaded, fitted, removedOps, lastNotif>>

dispatchVars == <<vehicles, isLoading, error, dispatchStatusMessage, dispatchError, latitude,
                  longitude, isDispatching, selectedVehicleName, effectSel, gets, lastGet, fleet,
                  fleetChanges, post, submitted>>

simVars == <<homeMounted, tab, activeEmergency, emergencyType, isSimulationRunning,
            simulationTime, incidentReports, timers, lastFired, aiMounted, aiInst,
            reasoningSteps, isThinking, agents, rafPending>>

MapPages == {"Map", "TrafficMap"}

(***************************************************************************)
(* The realtime map components: Map (traffic-lights-map.tsx, viz_color)    *)
(* and TrafficMap (traffic/page.tsx, traffic_level)                        *)
(***************************************************************************)
pageSize == 1000

\* the backend changes road_segments at most this many times
MaxChanges == 2

\* .order("id", {ascending: true}).range(lo, hi): rows lo..hi, 0-based, inclusive
RangeRows(t, lo, hi) == SubSeq(t, lo + 1, IF hi + 1 < Len(t) THEN hi + 1 ELSE Len(t))

\* a step one short of the page size: consecutive ranges overlap in one row
PageStepOverlapping == pageSize - 1

\* the step by which from advances after a page
PageStep == pageSize

\* the feature state a row's value stands for: viz_color ?? "unknown" (Map),
\* Number(traffic_level ?? -1) (TrafficMap)
StateValue(p, val) ==
    IF p = "Map" THEN Coalesce(val, Str("unknown")) ELSE ToNumber(Coalesce(val, Num(-1)))

\* f with the state of feature id set to v
SetFeatureState(f, id, v) == (id :> v) @@ f

\* the values of viz_color (Map) and traffic_level (TrafficMap) the backend stores, besides null
RowValues(p) == IF p = "Map" THEN {Str("lime"), Str("red")} ELSE {Num(0), Num(3)}

\* GeoJSON processing of one feature with Number in the place of parseInt
ProcessFeatureNumber(f) ==
    IF f.osmid.k = "arr"
    THEN [i \in 1..Len(f.osmid.v) |->
            [id |-> ToNumber(f.osmid.v[i]), osmid |-> f.osmid, geom |-> f.geom]]
    ELSE IF f.osmid.k \notin {"undef", "null"}
    THEN <<[id |-> ToNumber(f.osmid), osmid |-> f.osmid, geom |-> f.geom]>>
    ELSE <<[id |-> f.id, osmid |-> f.osmid, geom |-> f.geom]>>

\* GeoJSON processing of one feature of the file: an array osmid yields one
\* clone per element, a single osmid sets the id, a missing osmid leaves it
ProcessFeature(f) ==
    IF f.osmid.k = "arr"
    THEN [i \in 1..Len(f.osmid.v) |->
            [id |-> ParseInt(f.osmid.v[i]), osmid |-> f.osmid, geom |-> f.geom]]
    ELSE IF f.osmid.k \notin {"undef", "null"}
    THEN <<[id |-> IF f.osmid.k = "str" THEN ParseInt(f.osmid) ELSE f.osmid,
            osmid |-> f.osmid, geom |-> f.geom]>>
    ELSE <<[id |-> f.id, osmid |-> f.osmid, geom |-> f.geom]>>

\* the processed features with the features of the file taken last to first
RECURSIVE ProcessFeaturesReversed(_)
ProcessFeaturesReversed(raw) ==
    IF raw = <<>> THEN <<>>
    ELSE ProcessFeaturesReversed(Tail(raw)) \o ProcessFeature(Head(raw))

\* rawGeojson.features.forEach(...): the processed features, in input order
RECURSIVE ProcessFeatures(_)
ProcessFeatures(raw) ==
    IF raw = <<>> THEN <<>>
    ELSE ProcessFeature(Head(raw)) \o ProcessFeatures(Tail(raw))

\* step 4: the bounds extended over the LineString and MultiLineString features are not empty
BoundsNotEmpty(features) ==
    \E i \in 1..Len(features) : features[i].geom \in {"LineString", "MultiLineString"}

\* applySupabaseStateToMap: the feature id a snapshot row addresses (NaN: the row is skipped)
SnapshotFeatureId(p, row) ==
    IF p = "Map"
    THEN CASE row.osmid.k = "str" -> ParseInt(row.osmid)
           [] row.osmid.k = "num" -> row.osmid
           [] OTHER -> NaN
    ELSE ToNumber(row.osmid)

\* applySupabaseStateToMap: supabaseData.forEach(setFeatureState), the later row of an id wins
ApplySupabaseState(p, rows, f) ==
    LET addresses(i, id) == SnapshotFeatureId(p, rows[i]) = Num(id)
        ids == {SnapshotFeatureId(p, rows[i]).v :
                    i \in {k \in 1..Len(rows) : ~IsNaN(SnapshotFeatureId(p, rows[k]))}}
        lastRow(id) == CHOOSE i \in 1..Len(rows) :
                          addresses(i, id) /\ \A j \in (i + 1)..Len(rows) : ~addresses(j, id)
    IN  [id \in ids \cup DOMAIN f |->
            IF id \in ids THEN StateValue(p, rows[lastRow(id)].val) ELSE f[id]]

\* the realtime handler's test that the payload is a row it can apply
RealtimeApplies(p, new) ==
    /\ p = "Map" => (new.osmid.k # "undef" /\ new.val.k # "undef")
    /\ ~IsNaN(ToNumber(new.osmid))


\* what fetchInitialSupabaseData returns from its catch block, rows being
\* the pages fetched so far: the pages and not the empty array
ErrorResultPartial(rows) == rows

\* what fetchInitialSupabaseData returns from its catch block: return []
ErrorResult(rows) == <<>>

\* the answer to no request
NoAnswer == [err |-> FALSE, data |-> <<>>]

\* the call of fetchInitialSupabaseData up to its first awaited request
FetchStart ==
    /\ allRows' = <<>>
    /\ from' = 0
    /\ got' = 0
    /\ requests' = <<<<0, pageSize - 1>>>>
    /\ inflight' = NoAnswer
    /\ fpc' = "request"

\* steps 3 and 4 of the load handler, run when fetchInitialSupabaseData has
\* returned result: the snapshot is applied if it is not empty and the map is
\* there with its style loaded, then the map is fitted to the GeoJSON's bounds
LoadContinue(result) ==
    /\ fresult' = result
    /\ fpc' = "returned"
    /\ featureState' =
          IF Len(result) > 0 /\ mapRef # "null" /\ styleLoaded
          THEN ApplySupabaseState(page, result, featureState)
          ELSE featureState
    /\ fitted' = (fitted \/ (Len(sourceData) > 0 /\ BoundsNotEmpty(sourceData) /\ mapRef # "null"))
    /\ lpc' = "done"

\* the map 'load' event: isMapLoadedRef is set, source and layer are added, the
\* GeoJSON fetch is started
LoadEvent ==
    /\ page \in MapPages
    /\ lpc = "waitLoad"
    /\ ~mapRemoved
    /\ isMapLoaded' = TRUE
    /\ styleLoaded' = TRUE
    /\ lpc' = "fetchGeo"
    /\ UNCHANGED <<simVars, dispatchVars, page, logged, table, fpc, from, allRows, got, inflight, fresult, requests, mapRef,
                   mapRemoved, channelState, channel, changes, rawFeatures, sourceData,
                   featureState, fitted, removedOps, lastNotif>>

\* the catch block of step 2 going on to step 3, the call of fetchInitialSupabaseData
GeoJsonCatchContinues ==
    /\ logged' = logged \cup {"geojson"}
    /\ lpc' = "snapshot"
    /\ FetchStart
    /\ UNCHANGED fresult

\* the catch block of step 2: console.error, return
GeoJsonCatch ==
    /\ logged' = logged \cup {"geojson"}
    /\ lpc' = "aborted"
    /\ UNCHANGED fetchVars

\* fetch("/data/sf_traffic_map.json") rejects or answers with a non-OK status: catch, return
GeoFetchFail ==
    /\ page \in MapPages
    /\ lpc = "fetchGeo"
    /\ GeoJsonCatch
    /\ UNCHANGED <<simVars, dispatchVars, page, table, mapRef,
                   mapRemoved, isMapLoaded, channelState, channel, changes, rawFeatures,
                   sourceData, featureState, styleLoaded, fitted, removedOps, lastNotif>>

\* the GeoJSON response is OK: await resp.json()
GeoFetchOk ==
    /\ page \in MapPages
    /\ lpc = "fetchGeo"
    /\ lpc' = "jsonGeo"
    /\ UNCHANGED <<simVars, dispatchVars, page, logged, table, fpc, from, allRows, got, inflight, fresult, requests, mapRef,
                   mapRemoved, isMapLoaded, channelState, channel, changes, rawFeatures,
                   sourceData, featureState, styleLoaded, fitted, removedOps, lastNotif>>

\* resp.json() rejects, or processing throws: catch, return
GeoJsonFail ==
    /\ page \in MapPages
    /\ lpc = "jsonGeo"
    /\ GeoJsonCatch
    /\ UNCHANGED <<simVars, dispatchVars, page, table, mapRef,
                   mapRemoved, isMapLoaded, channelState, channel, changes, rawFeatures,
                   sourceData, featureState, styleLoaded, fitted, removedOps, lastNotif>>

\* the GeoJSON is parsed: the features are processed and handed to the source
\* (which reloads, so the style is not loaded for a while), and
\* fetchInitialSupabaseData is called
GeoJsonOk ==
    /\ page \in MapPages
    /\ lpc = "jsonGeo"
    /\ sourceData' = ProcessFeatures(rawFeatures)
    /\ styleLoaded' = FALSE
    /\ removedOps' = IF mapRemoved THEN removedOps \cup {"setData"} ELSE removedOps
    /\ lpc' = "snapshot"
    /\ FetchStart
    /\ UNCHANGED <<simVars, dispatchVars, page, logged, table, fresult, mapRef, mapRemoved, isMapLoaded, channelState,
                   channel, changes, rawFeatures, featureState, fitted, lastNotif>>

\* the source has loaded the data it was given: the style is loaded again
StyleSettle ==
    /\ page \in MapPages
    /\ ~styleLoaded
    /\ ~mapRemoved
    /\ styleLoaded' = TRUE
    /\ UNCHANGED <<simVars, dispatchVars, page, logged, table, fpc, from, allRows, got, inflight, fresult, requests, mapRef,
                   mapRemoved, isMapLoaded, channelState, channel, changes, lpc, rawFeatures,
                   sourceData, featureState, fitted, removedOps, lastNotif>>

\* the backend answers the awaited page request with the rows of the range
ServePage ==
    /\ fpc = "request"
    /\ inflight' = [err |-> FALSE, data |-> RangeRows(table, from, from + pageSize - 1)]
    /\ fpc' = "response"
    /\ UNCHANGED <<simVars, dispatchVars, page, logged, table, from, allRows, got, fresult, requests, mapRef, mapRemoved,
                   isMapLoaded, channelState, channel, changes, lpc, rawFeatures, sourceData,
                   featureState, styleLoaded, fitted, removedOps, lastNotif>>

\* the awaited page request fails
ServePageError ==
    /\ fpc = "request"
    /\ inflight' = [err |-> TRUE, data |-> <<>>]
    /\ fpc' = "response"
    /\ UNCHANGED <<simVars, dispatchVars, page, logged, table, from, allRows, got, fresult, requests, mapRef, mapRemoved,
                   isMapLoaded, channelState, channel, changes, lpc, rawFeatures, sourceData,
                   featureState, styleLoaded, fitted, removedOps, lastNotif>>

\* the loop going on after every page that is not empty
LoopAgainNonEmpty(g) == g > 0

\* the loop's condition: while (got === pageSize)
LoopAgain(g) == g = pageSize

\* one iteration of the do-while loop: the awaited page arrives without error;
\* a full page asks for the next one, a short page returns allRows to the load handler
FetchPage ==
    /\ fpc = "response"
    /\ ~inflight.err
    /\ LET data == inflight.data
           rows == allRows \o data
       IN  /\ got' = Len(data)
           /\ allRows' = rows
           /\ from' = from + PageStep
           /\ inflight' = NoAnswer
           /\ IF LoopAgain(Len(data))
                 THEN /\ fpc' = "request"
                      /\ requests' = Append(requests, <<from + PageStep, from + PageStep + pageSize - 1>>)
                      /\ UNCHANGED <<fresult, featureState, fitted, lpc>>
                 ELSE /\ requests' = requests
                      /\ LoadContinue(rows)
    /\ UNCHANGED <<simVars, dispatchVars, page, logged, table, mapRef, mapRemoved, isMapLoaded, channelState, channel,
                   changes, rawFeatures, sourceData, styleLoaded, removedOps, lastNotif>>

\* the awaited page request returned an error: throw, catch, return [] to the load handler
FetchPageError ==
    /\ fpc = "response"
    /\ inflight.err
    /\ inflight' = NoAnswer
    /\ logged' = logged \cup {"snapshot"}
    /\ LoadContinue(ErrorResult(allRows))
    /\ UNCHANGED <<simVars, dispatchVars, page, table, from, allRows, got, requests, mapRef, mapRemoved, isMapLoaded,
                   channelState, channel, changes, rawFeatures, sourceData, styleLoaded,
                   removedOps, lastNotif>>

\* the value a notification carries, null standing for the default
NotifValue(p, val) ==
    IF val.k = "null" THEN (IF p = "Map" THEN Str("unknown") ELSE Num(-1)) ELSE val

\* the handler's test with the check of isMapLoadedRef left out
HandlerReadyWithoutLoad == mapRef # "null"

\* the realtime handler's test: updatedSegment && mapRef.current && isMapLoadedRef.current
HandlerReady == mapRef # "null" /\ isMapLoaded

\* the realtime handler: the oldest notification in flight is delivered
Deliver ==
    /\ page \in MapPages
    /\ channelState \in {"subscribed", "removing"}
    /\ channel # <<>>
    /\ LET new == Head(channel)
           ready == HandlerReady
           id == ToNumber(new.osmid)
       IN  /\ channel' = Tail(channel)
           /\ featureState' =
                 IF ready /\ RealtimeApplies(page, new)
                 THEN SetFeatureState(featureState, id.v, StateValue(page, new.val))
                 ELSE featureState
           /\ lastNotif' =
                 IF ready /\ ~IsNaN(id)
                 THEN (id.v :> NotifValue(page, new.val)) @@ lastNotif
                 ELSE lastNotif
    /\ UNCHANGED <<simVars, dispatchVars, page, logged, table, fpc, from, allRows, got, inflight, fresult, requests, mapRef,
                   mapRemoved, isMapLoaded, channelState, changes, lpc, rawFeatures,
                   sourceData, styleLoaded, fitted, removedOps>>

\* the channel's queue after the backend published new
Publish(new) == IF channelState = "subscribed" THEN Append(channel, new) ELSE channel

\* the backend updates the value of a row and publishes the new row
BackendUpdate ==
    /\ page \in MapPages
    /\ changes < MaxChanges
    /\ \E i \in 1..Len(table), v \in RowValues(page) \cup {Null} :
          /\ table' = [table EXCEPT ![i].val = v]
          /\ channel' = Publish([table[i] EXCEPT !.val = v])
    /\ changes' = changes + 1
    /\ UNCHANGED <<simVars, dispatchVars, page, logged, fpc, from, allRows, got, inflight, fresult, requests, mapRef,
                   mapRemoved, isMapLoaded, channelState, lpc, rawFeatures, sourceData,
                   featureState, styleLoaded, fitted, removedOps, lastNotif>>

\* the osmid of the rows the backend inserts
InsertOsmids == {Num(2)}

\* the backend inserts a row (it gets the highest id) and publishes it
BackendInsert ==
    /\ page \in MapPages
    /\ changes < MaxChanges
    /\ \E o \in InsertOsmids, v \in RowValues(page) :
          /\ table' = Append(table, [osmid |-> o, val |-> v])
          /\ channel' = Publish([osmid |-> o, val |-> v])
    /\ changes' = changes + 1
    /\ UNCHANGED <<simVars, dispatchVars, page, logged, fpc, from, allRows, got, inflight, fresult, requests, mapRef,
                   mapRemoved, isMapLoaded, channelState, lpc, rawFeatures, sourceData,
                   featureState, styleLoaded, fitted, removedOps, lastNotif>>

\* the backend deletes a row: the notification's payload.new is the empty object
BackendDelete ==
    /\ page \in MapPages
    /\ changes < MaxChanges
    /\ \E i \in 1..Len(table) :
          table' = SubSeq(table, 1, i - 1) \o SubSeq(table, i + 1, Len(table))
    /\ channel' = Publish([osmid |-> Undefined, val |-> Undefined])
    /\ changes' = changes + 1
    /\ UNCHANGED <<simVars, dispatchVars, page, logged, fpc, from, allRows, got, inflight, fresult, requests, mapRef,
                   mapRemoved, isMapLoaded, channelState, lpc, rawFeatures, sourceData,
                   featureState, styleLoaded, fitted, removedOps, lastNotif>>

\* the effect's cleanup: the map is removed, the refs are reset, the channel's removal is started
Unmount ==
    /\ page \in MapPages
    /\ channelState = "subscribed"
    /\ mapRemoved' = TRUE
    /\ mapRef' = "null"
    /\ isMapLoaded' = FALSE
    /\ channelState' = "removing"
    /\ UNCHANGED <<simVars, dispatchVars, page, logged, table, fpc, from, allRows, got, inflight, fresult, requests, channel,
                   changes, lpc, rawFeatures, sourceData, featureState, styleLoaded, fitted,
                   removedOps, lastNotif>>

\* supabase.removeChannel resolves: nothing is delivered any more
ChannelRemoved ==
    /\ page \in MapPages
    /\ channelState = "removing"
    /\ channelState' = "removed"
    /\ channel' = <<>>
    /\ UNCHANGED <<simVars, dispatchVars, page, logged, table, fpc, from, allRows, got, inflight, fresult, requests, mapRef,
                   mapRemoved, isMapLoaded, changes, lpc, rawFeatures, sourceData,
                   featureState, styleLoaded, fitted, removedOps, lastNotif>>


(***************************************************************************)
(* The dispatch page (DispatchPage in app/store.ts)                        *)
(***************************************************************************)
\* at most this many GET /vehicles requests are started by polls and selections
MaxGets == 2

\* the form is submitted at most this many times
MaxSubmits == 2

\* the backend's vehicles change at most this many times
MaxFleetChanges == 1

Vehicle(n, st) == [name |-> n, status |-> st]

\* the answers of GET /vehicles
Fleets ==
    { <<>>,
      <<Vehicle("A", "ready"), Vehicle("B", "en route")>>,
      <<Vehicle("A", "dispatched"), Vehicle("B", "en route")>> }

\* what the user types into a coordinate field
TypedStrings == {<<"4", "5">>}

\* the outcomes of POST /report/incident: an OK response with or without a
\* message, a non-OK response, a rejected fetch or an unreadable body
PostOutcomes == {"message", "nomessage", "notok", "rejected"}

NoPost == [st |-> "idle", sel |-> "null", outcome |-> "none"]

\* the body of no request
NoBody == [latitude |-> NaN, longitude |-> NaN]

\* the message of fetchVehicles' catch block when it sets no error
FetchVehiclesErrorSwallowed == "null"

\* the message of fetchVehicles' catch block: setError(`Failed to load vehicles: ...`)
FetchVehiclesError == "Failed to load vehicles"

\* the range test with the bounds of latitude and longitude exchanged
CoordinatesOutOfRangeSwapped(latNum, lonNum) ==
    \/ LessThan(latNum, -180)
    \/ GreaterThan(latNum, 180)
    \/ LessThan(lonNum, -90)
    \/ GreaterThan(lonNum, 90)

\* latNum < -90 || latNum > 90 || lonNum < -180 || lonNum > 180
CoordinatesOutOfRange(latNum, lonNum) ==
    \/ LessThan(latNum, -90)
    \/ GreaterThan(latNum, 90)
    \/ LessThan(lonNum, -180)
    \/ GreaterThan(lonNum, 180)

\* the call of fetchVehicles up to its awaited fetch: sel is the
\* selectedVehicleName its closure holds
StartGet(sel, by) ==
    Append(gets, [st |-> "sent", sel |-> sel, by |-> by, ok |-> TRUE, payload |-> <<>>])

\* data.find(v => v.status !== 'ready')
ActiveIndexes(data) == {i \in 1..Len(data) : data[i].status # "ready"}

\* the selection after fetchVehicles got data: the first active vehicle if its
\* closure holds no selection
AutoSelect(sel, data) ==
    IF sel = "null" /\ ActiveIndexes(data) # {}
    THEN data[Min(ActiveIndexes(data))].name
    ELSE selectedVehicleName

\* the error messages the page renders
ErrorsShown ==
    IF page = "Dispatch"
    THEN ({dispatchError} \ {"null"}) \cup (IF error # "null" /\ ~isLoading THEN {error} ELSE {})
    ELSE {}

\* the polling effect runs again because fetchVehicles has changed with
\* selectedVehicleName: the old interval is cleared, isLoading is set,
\* fetchVehicles is called and a new interval is set
PollingEffect ==
    /\ page = "Dispatch"
    /\ effectSel # selectedVehicleName
    /\ effectSel' = selectedVehicleName
    /\ isLoading' = TRUE
    /\ gets' = StartGet(selectedVehicleName, "effect")
    /\ UNCHANGED <<simVars, page, logged, table, fetchVars, mapVars, vehicles, error,
                   dispatchStatusMessage, dispatchError, latitude, longitude, isDispatching,
                   selectedVehicleName, lastGet, fleet, fleetChanges, post, submitted>>

\* the 30 second interval fires: fetchVehicles of the effect's closure is called
Poll ==
    /\ page = "Dispatch"
    /\ Len(gets) < MaxGets
    /\ gets' = StartGet(effectSel, "poll")
    /\ UNCHANGED <<simVars, page, logged, table, fetchVars, mapVars, vehicles, isLoading, error,
                   dispatchStatusMessage, dispatchError, latitude, longitude, isDispatching,
                   selectedVehicleName, effectSel, lastGet, fleet, fleetChanges, post, submitted>>

\* the backend answers a GET /vehicles request, or the request fails
ServeGet ==
    /\ page = "Dispatch"
    /\ \E i \in 1..Len(gets), ok \in BOOLEAN :
          /\ gets[i].st = "sent"
          /\ gets' = [gets EXCEPT ![i].st = "answered", ![i].ok = ok,
                                  ![i].payload = IF ok THEN fleet ELSE <<>>]
    /\ UNCHANGED <<simVars, page, logged, table, fetchVars, mapVars, vehicles, isLoading, error,
                   dispatchStatusMessage, dispatchError, latitude, longitude, isDispatching,
                   selectedVehicleName, effectSel, lastGet, fleet, fleetChanges, post, submitted>>

\* handleDispatch ending without its finally block
FinallyBlockSkipped == UNCHANGED isDispatching

\* the finally block of handleDispatch: setIsDispatching(false)
FinallyBlock == isDispatching' = FALSE

\* fetchVehicles after its awaited fetch: the data is set, or the error; when
\* handleDispatch awaits this call, its finally block follows
GetDone ==
    /\ page = "Dispatch"
    /\ \E i \in 1..Len(gets) :
          /\ gets[i].st = "answered"
          /\ gets' = [gets EXCEPT ![i].st = "done", ![i].sel = "null", ![i].by = "done"]
          /\ IF gets[i].ok
                THEN /\ vehicles' = gets[i].payload
                     /\ error' = "null"
                     /\ selectedVehicleName' = AutoSelect(gets[i].sel, gets[i].payload)
                     /\ lastGet' = "ok"
                     /\ logged' = logged
                ELSE /\ vehicles' = <<>>
                     /\ error' = FetchVehiclesError
                     /\ selectedVehicleName' = selectedVehicleName
                     /\ lastGet' = "failed"
                     /\ logged' = logged \cup {"vehicles"}
          /\ isLoading' = FALSE
          /\ IF gets[i].by = "dispatch"
                THEN FinallyBlock /\ post' = NoPost
                ELSE UNCHANGED <<isDispatching, post>>
    /\ UNCHANGED <<simVars, page, table, fetchVars, mapVars, dispatchStatusMessage, dispatchError,
                   latitude, longitude, effectSel, fleet, fleetChanges, submitted>>

\* handleSelectIncident: the user clicks an incident of the list
SelectIncident ==
    /\ page = "Dispatch"
    /\ Len(gets) < MaxGets
    /\ ~isLoading
    /\ error = "null"
    /\ \E i \in ActiveIndexes(vehicles) :
          /\ vehicles[i].name # selectedVehicleName
          /\ selectedVehicleName' = vehicles[i].name
    /\ UNCHANGED <<simVars, page, logged, table, fetchVars, mapVars, vehicles, isLoading, error,
                   dispatchStatusMessage, dispatchError, latitude, longitude, isDispatching,
                   effectSel, gets, lastGet, fleet, fleetChanges, post, submitted>>

\* the latitude field's onChange
SetLatitude ==
    /\ page = "Dispatch"
    /\ ~isDispatching
    /\ \E text \in TypedStrings : text # latitude /\ latitude' = text
    /\ UNCHANGED <<simVars, page, logged, table, fetchVars, mapVars, vehicles, isLoading, error,
                   dispatchStatusMessage, dispatchError, longitude, isDispatching,
                   selectedVehicleName, effectSel, gets, lastGet, fleet, fleetChanges, post,
                   submitted>>

\* the longitude field's onChange
SetLongitude ==
    /\ page = "Dispatch"
    /\ ~isDispatching
    /\ \E text \in TypedStrings : text # longitude /\ longitude' = text
    /\ UNCHANGED <<simVars, page, logged, table, fetchVars, mapVars, vehicles, isLoading, error,
                   dispatchStatusMessage, dispatchError, latitude, isDispatching,
                   selectedVehicleName, effectSel, gets, lastGet, fleet, fleetChanges, post,
                   submitted>>

\* handleDispatch up to its awaited fetch: the fields are parsed and validated,
\* and the request is sent if they are valid
HandleDispatch ==
    /\ page = "Dispatch"
    /\ ~isDispatching
    /\ Len(submitted) < MaxSubmits
    /\ LET latNum == ParseFloatChars(latitude)
           lonNum == ParseFloatChars(longitude)
           body == [latitude |-> latNum, longitude |-> lonNum]
       IN  IF IsNaN(latNum) \/ IsNaN(lonNum)
           THEN /\ dispatchError' = "Please enter valid numeric coordinates."
                /\ dispatchStatusMessage' = ""
                /\ submitted' = Append(submitted, [latitude |-> latitude, longitude |-> longitude,
                                                   sent |-> FALSE, body |-> NoBody])
                /\ UNCHANGED <<isDispatching, post>>
           ELSE IF CoordinatesOutOfRange(latNum, lonNum)
           THEN /\ dispatchError' = "Coordinates out of valid range."
                /\ dispatchStatusMessage' = ""
                /\ submitted' = Append(submitted, [latitude |-> latitude, longitude |-> longitude,
                                                   sent |-> FALSE, body |-> NoBody])
                /\ UNCHANGED <<isDispatching, post>>
           ELSE /\ dispatchError' = "null"
                /\ dispatchStatusMessage' = "Dispatching..."
                /\ isDispatching' = TRUE
                /\ post' = [st |-> "sent", sel |-> selectedVehicleName, outcome |-> "none"]
                /\ submitted' = Append(submitted, [latitude |-> latitude, longitude |-> longitude,
                                                   sent |-> TRUE, body |-> body])
    /\ UNCHANGED <<simVars, page, logged, table, fetchVars, mapVars, vehicles, isLoading, error, latitude,
                   longitude, selectedVehicleName, effectSel, gets, lastGet, fleet, fleetChanges>>

\* the backend answers the POST, or the request fails
ServePost ==
    /\ page = "Dispatch"
    /\ post.st = "sent"
    /\ \E o \in PostOutcomes : post' = [post EXCEPT !.st = "answered", !.outcome = o]
    /\ UNCHANGED <<simVars, page, logged, table, fetchVars, mapVars, vehicles, isLoading, error,
                   dispatchStatusMessage, dispatchError, latitude, longitude, isDispatching,
                   selectedVehicleName, effectSel, gets, lastGet, fleet, fleetChanges, submitted>>

\* the catch block leaving the status message as it is
CatchBlockKeepingStatus ==
    /\ dispatchError' = "Dispatch failed"
    /\ UNCHANGED dispatchStatusMessage
    /\ logged' = logged \cup {"dispatch"}

\* the catch block of handleDispatch: console.error,
\* setDispatchError(`Dispatch failed: ...`), setDispatchStatusMessage('')
CatchBlock ==
    /\ dispatchError' = "Dispatch failed"
    /\ dispatchStatusMessage' = ""
    /\ logged' = logged \cup {"dispatch"}

\* the form after a success with only the latitude cleared
ClearFormLatitudeOnly == latitude' = <<>> /\ UNCHANGED longitude

\* setLatitude(''); setLongitude('')
ClearForm == latitude' = <<>> /\ longitude' = <<>>

\* handleDispatch after its awaited fetch: on success the message is shown, the
\* fields are cleared and fetchVehicles is called and awaited; on failure the
\* catch and finally blocks run
PostDone ==
    /\ page = "Dispatch"
    /\ post.st = "answered"
    /\ IF post.outcome \in {"message", "nomessage"}
          THEN /\ dispatchStatusMessage' =
                     IF post.outcome = "message" THEN "backend message" ELSE "Dispatch successful!"
               /\ ClearForm
               /\ gets' = StartGet(post.sel, "dispatch")
               /\ post' = [post EXCEPT !.st = "refreshing"]
               /\ UNCHANGED <<dispatchError, isDispatching, logged>>
          ELSE /\ CatchBlock
               /\ FinallyBlock
               /\ post' = NoPost
               /\ UNCHANGED <<latitude, longitude, gets>>
    /\ UNCHANGED <<simVars, page, table, fetchVars, mapVars, vehicles, isLoading, error,
                   selectedVehicleName, effectSel, lastGet, fleet, fleetChanges, submitted>>

\* the backend's vehicles change
BackendFleetChange ==
    /\ page = "Dispatch"
    /\ fleetChanges < MaxFleetChanges
    /\ \E f \in Fleets : f # fleet /\ fleet' = f
    /\ fleetChanges' = fleetChanges + 1
    /\ UNCHANGED <<simVars, page, logged, table, fetchVars, mapVars, vehicles, isLoading, error,
                   dispatchStatusMessage, dispatchError, latitude, longitude, isDispatching,
                   selectedVehicleName, effectSel, gets, lastGet, post, submitted>>


(***************************************************************************)
(* The Home page: the emergency simulation and its timer-driven panels     *)
(* (Home, AIReasoningPanel, TrafficLightStatus, CityMap).  The content of  *)
(* a tab is mounted while the tab is selected.  Time passes in steps of    *)
(* TickMs; a timer is due when no time is left on it, and no time passes   *)
(* while a timer is due.                                                   *)
(***************************************************************************)
\* the emergency is triggered at most this many times
MaxEmergencies == 2

\* the AI reasoning tab is opened at most this many times
MaxMounts == 1

\* the step of time, in milliseconds
TickMs == 500

\* the length of AIReasoningPanel's list of steps
NumSteps == 11

\* the number of traffic light agents
NumAgents == 4

\* the delay of the incident report, in milliseconds
ReportDelay == 15000

\* the period of the simulation clock
ClockPeriod == 1000

\* the delay of the first reasoning step
FirstStepDelay == 500

\* Math.random() * 1000 + 500, to the step of time: what the delay grows by from step to step
StepIncrements == {500, 1000}

\* the agents turn to "coordinating" this far apart
CoordinatingStagger == 1000

\* the stagger with the agents taken last to first
CoordinatingDelayReversed(index) == (NumAgents - 1 - index) * CoordinatingStagger

\* index * 1000: the delay of the agent's turn to "coordinating"
CoordinatingDelay(index) == index * CoordinatingStagger

\* 1500 + index * 500: the delay from "coordinating" to "emergency"
EmergencyModeDelay(index) == 1500 + index * 500

\* the types of emergency the user selects
EmergencyTypes == {"fire"}

Timer(kind, inst, idx, rem, arg) ==
    [kind |-> kind, inst |-> inst, idx |-> idx, rem |-> rem, arg |-> arg]

\* what tells a timer from the others
TimerId(t) == [kind |-> t.kind, inst |-> t.inst, idx |-> t.idx]

NoTimer == [kind |-> "none", inst |-> 0, idx |-> 0]

\* the timers that are due
Due(kind) == {t \in timers : t.kind = kind /\ t.rem <= 0}

NormalAgent == [status |-> "normal", message |-> "Normal operation"]

\* the test for the last step with the first step in its place
IsFirstStep(index) == index = 1

\* index === steps.length - 1, for steps numbered from 1
IsLastStep(index) == index = NumSteps

\* the timers left when the emergency has ended, had the panels cleared theirs
TimersAfterEmergencyCleared(ts) == {t \in ts : t.kind \notin {"interval", "ai", "coord", "emerg"}}

\* the timers left when the emergency has ended and the effects have run again:
\* Home clears its interval, the panels clear nothing
TimersAfterEmergency(ts) == {t \in ts : t.kind # "interval"}

\* EmergencyPanel's button: handleEmergencyTrigger, and the effects of Home,
\* TrafficLightStatus and CityMap that the new state runs
TriggerEmergency ==
    /\ page = "Home"
    /\ homeMounted
    /\ tab = "emergency"
    /\ ~activeEmergency
    /\ Len(incidentReports) < MaxEmergencies
    /\ \E type \in EmergencyTypes :
          /\ emergencyType' = type
          /\ timers' = timers
                \cup {Timer("report", 0, 0, ReportDelay, type), Timer("interval", 0, 0, ClockPeriod, "")}
                \cup {Timer("coord", 0, i, CoordinatingDelay(i - 1), "") : i \in 1..NumAgents}
    /\ activeEmergency' = TRUE
    /\ isSimulationRunning' = TRUE
    /\ rafPending' = TRUE
    /\ lastFired' = NoTimer
    /\ UNCHANGED <<page, logged, table, fetchVars, mapVars, dispatchVars, homeMounted, tab,
                   simulationTime, incidentReports, aiMounted, aiInst, reasoningSteps,
                   isThinking, agents>>

\* the callback of Home's 15 second timer: the report is added and the
\* emergency ends; the effects run again: the clock and the animation stop, the
\* agents are reset, AIReasoningPanel empties its list
FireReport ==
    /\ page = "Home"
    /\ \E t \in Due("report") :
          /\ lastFired' = TimerId(t)
          /\ IF homeMounted
                THEN /\ incidentReports' = <<t.arg>> \o incidentReports
                     /\ activeEmergency' = FALSE
                     /\ emergencyType' = "null"
                     /\ isSimulationRunning' = FALSE
                     /\ simulationTime' = 0
                     /\ timers' = TimersAfterEmergency(timers \ {t})
                     /\ rafPending' = FALSE
                     /\ agents' = [i \in 1..NumAgents |-> NormalAgent]
                     /\ reasoningSteps' = IF aiMounted THEN <<>> ELSE reasoningSteps
                ELSE /\ timers' = timers \ {t}
                     /\ UNCHANGED <<incidentReports, activeEmergency, emergencyType,
                                    isSimulationRunning, simulationTime, rafPending, agents,
                                    reasoningSteps>>
    /\ UNCHANGED <<page, logged, table, fetchVars, mapVars, dispatchVars, homeMounted, tab,
                   aiMounted, aiInst, isThinking>>

\* the callback of the simulation clock's interval
FireInterval ==
    /\ page = "Home"
    /\ \E t \in Due("interval") :
          /\ lastFired' = TimerId(t)
          /\ timers' = (timers \ {t}) \cup {[t EXCEPT !.rem = t.rem + ClockPeriod]}
    /\ simulationTime' = simulationTime + 1
    /\ UNCHANGED <<page, logged, table, fetchVars, mapVars, dispatchVars, homeMounted, tab,
                   activeEmergency, emergencyType, isSimulationRunning, incidentReports,
                   aiMounted, aiInst, reasoningSteps, isThinking, agents, rafPending>>

\* the AI reasoning tab is selected: AIReasoningPanel is mounted and its effect
\* runs; during an emergency it sets the timers of the steps, each later than
\* the one before (the timer of a step stands for those of the steps after it)
OpenAITab ==
    /\ page = "Home"
    /\ homeMounted
    /\ tab # "ai"
    /\ aiInst < MaxMounts
    /\ tab' = "ai"
    /\ aiMounted' = TRUE
    /\ aiInst' = aiInst + 1
    /\ reasoningSteps' = <<>>
    /\ isThinking' = (activeEmergency /\ emergencyType # "null")
    /\ timers' = IF activeEmergency /\ emergencyType # "null"
                 THEN timers \cup {Timer("ai", aiInst + 1, 1, FirstStepDelay, "")}
                 ELSE timers
    /\ lastFired' = NoTimer
    /\ UNCHANGED <<page, logged, table, fetchVars, mapVars, dispatchVars, homeMounted,
                   activeEmergency, emergencyType, isSimulationRunning, simulationTime,
                   incidentReports, agents, rafPending>>

\* another tab is selected: if AIReasoningPanel was mounted it is unmounted and its state is gone
SelectTab ==
    /\ page = "Home"
    /\ homeMounted
    /\ \E t \in {"emergency", "reports"} : t # tab /\ tab' = t
    /\ aiMounted' = FALSE
    /\ reasoningSteps' = <<>>
    /\ isThinking' = FALSE
    /\ lastFired' = NoTimer
    /\ UNCHANGED <<page, logged, table, fetchVars, mapVars, dispatchVars, homeMounted,
                   activeEmergency, emergencyType, isSimulationRunning, simulationTime,
                   incidentReports, timers, aiInst, agents, rafPending>>

\* the callback of a reasoning step's timer: the step is appended, the last
\* step ends the thinking; the state of an unmounted panel is not there to change
FireAIStep ==
    /\ page = "Home"
    /\ \E t \in Due("ai") :
          LET live == homeMounted /\ aiMounted /\ t.inst = aiInst
          IN  /\ lastFired' = TimerId(t)
              /\ reasoningSteps' = IF live THEN Append(reasoningSteps, t.idx) ELSE reasoningSteps
              /\ isThinking' = IF live /\ IsLastStep(t.idx) THEN FALSE ELSE isThinking
              /\ IF t.idx < NumSteps
                    THEN \E inc \in StepIncrements :
                            timers' = (timers \ {t})
                                \cup {Timer("ai", t.inst, t.idx + 1, t.rem + inc, "")}
                    ELSE timers' = timers \ {t}
    /\ UNCHANGED <<page, logged, table, fetchVars, mapVars, dispatchVars, homeMounted, tab,
                   activeEmergency, emergencyType, isSimulationRunning, simulationTime,
                   incidentReports, aiMounted, aiInst, agents, rafPending>>

\* the callback of an agent's first timer: the agent is coordinating, and the
\* timer of its emergency mode is set
FireCoordinating ==
    /\ page = "Home"
    /\ \E t \in Due("coord") :
          /\ lastFired' = TimerId(t)
          /\ agents' = IF homeMounted
                       THEN [agents EXCEPT ![t.idx] =
                                [status |-> "coordinating", message |-> "Receiving emergency signal..."]]
                       ELSE agents
          /\ timers' = (timers \ {t})
                \cup {Timer("emerg", 0, t.idx, EmergencyModeDelay(t.idx - 1), "")}
    /\ UNCHANGED <<page, logged, table, fetchVars, mapVars, dispatchVars, homeMounted, tab,
                   activeEmergency, emergencyType, isSimulationRunning, simulationTime,
                   incidentReports, aiMounted, aiInst, reasoningSteps, isThinking, rafPending>>

\* the callback of an agent's second timer: the agent is in emergency mode
FireEmergencyMode ==
    /\ page = "Home"
    /\ \E t \in Due("emerg") :
          /\ lastFired' = TimerId(t)
          /\ agents' = IF homeMounted
                       THEN [agents EXCEPT ![t.idx] =
                                [status |-> "emergency",
                                 message |-> IF (t.idx - 1) % 2 = 0
                                             THEN "Prioritizing north-south flow"
                                             ELSE "Prioritizing east-west flow"]]
                       ELSE agents
          /\ timers' = timers \ {t}
    /\ UNCHANGED <<page, logged, table, fetchVars, mapVars, dispatchVars, homeMounted, tab,
                   activeEmergency, emergencyType, isSimulationRunning, simulationTime,
                   incidentReports, aiMounted, aiInst, reasoningSteps, isThinking, rafPending>>

\* CityMap's animation frame: the vehicles move and the next frame is requested
Frame ==
    /\ page = "Home"
    /\ rafPending
    /\ lastFired' = [kind |-> "frame", inst |-> 0, idx |-> 0]
    /\ UNCHANGED <<page, logged, table, fetchVars, mapVars, dispatchVars, homeMounted, tab,
                   activeEmergency, emergencyType, isSimulationRunning, simulationTime,
                   incidentReports, timers, aiMounted, aiInst, reasoningSteps, isThinking,
                   agents, rafPending>>

\* Home is unmounted with all its components: the cleanups clear the clock's
\* interval and cancel the animation frame
HomeUnmount ==
    /\ page = "Home"
    /\ homeMounted
    /\ homeMounted' = FALSE
    /\ aiMounted' = FALSE
    /\ reasoningSteps' = <<>>
    /\ isThinking' = FALSE
    /\ timers' = {t \in timers : t.kind # "interval"}
    /\ rafPending' = FALSE
    /\ lastFired' = NoTimer
    /\ UNCHANGED <<page, logged, table, fetchVars, mapVars, dispatchVars, tab, activeEmergency,
                   emergencyType, isSimulationRunning, simulationTime, incidentReports, aiInst,
                   agents>>

\* time passes while timers are pending and none is due
Tick ==
    /\ page = "Home"
    /\ timers # {}
    /\ \A t \in timers : t.rem > 0
    /\ timers' = {[t EXCEPT !.rem = t.rem - TickMs] : t \in timers}
    /\ lastFired' = NoTimer
    /\ UNCHANGED <<page, logged, table, fetchVars, mapVars, dispatchVars, homeMounted, tab,
                   activeEmergency, emergencyType, isSimulationRunning, simulationTime,
                   incidentReports, aiMounted, aiInst, reasoningSteps, isThinking, agents,
                   rafPending>>


(***************************************************************************)
(* Initial states and specifications                                       *)
(***************************************************************************)
\* a feature of the file: its osmid property and the type of its geometry; the file's features carry no id
RawFeature(o, g) == [id |-> Undefined, osmid |-> o, geom |-> g]

\* the osmid values of the rows of road_segments
RowOsmids == {Num(1), Str(<<"1">>), Str(<<"1", "a">>), Str(<<"a">>), Str(<<>>), Null}

\* the tables the map components are started on
InitialTables(p) ==
    {<<>>}
    \cup {<<[osmid |-> o, val |-> v]>> : o \in RowOsmids, v \in RowValues(p) \cup {Null}}
    \cup {<<[osmid |-> Num(1), val |-> v], [osmid |-> Str(<<"1">>), val |-> Null]>> : v \in RowValues(p)}

\* the GeoJSON files the map components are started on
GeoFiles ==
    { <<>>,
      <<RawFeature(Num(1), "LineString")>>,
      <<RawFeature(Arr(<<Str(<<"1">>), Num(2)>>), "Point"), RawFeature(Undefined, "Point")>> }

\* the fetch before fetchInitialSupabaseData is called
FetchIdle ==
    /\ fpc = "idle"
    /\ from = 0
    /\ allRows = <<>>
    /\ got = 0
    /\ inflight = NoAnswer
    /\ fresult = <<>>
    /\ requests = <<>>

\* a map component after its effect has run: the map is created, the channel subscribed
MapMounted ==
    /\ mapRef = "map"
    /\ mapRemoved = FALSE
    /\ isMapLoaded = FALSE
    /\ channelState = "subscribed"
    /\ channel = <<>>
    /\ changes = 0
    /\ lpc = "waitLoad"
    /\ sourceData = <<>>
    /\ featureState = <<>>
    /\ styleLoaded = FALSE
    /\ fitted = FALSE
    /\ removedOps = {}
    /\ lastNotif = <<>>

\* the Home page while another page is shown
SimIdle ==
    /\ homeMounted = FALSE
    /\ tab = "emergency"
    /\ activeEmergency = FALSE
    /\ emergencyType = "null"
    /\ isSimulationRunning = FALSE
    /\ simulationTime = 0
    /\ incidentReports = <<>>
    /\ timers = {}
    /\ lastFired = NoTimer
    /\ aiMounted = FALSE
    /\ aiInst = 0
    /\ reasoningSteps = <<>>
    /\ isThinking = FALSE
    /\ agents = [i \in 1..NumAgents |-> NormalAgent]
    /\ rafPending = FALSE

\* the dispatch page while another page is shown
DispatchIdle ==
    /\ vehicles = <<>>
    /\ isLoading = TRUE
    /\ error = "null"
    /\ dispatchStatusMessage = ""
    /\ dispatchError = "null"
    /\ latitude = <<>>
    /\ longitude = <<>>
    /\ isDispatching = FALSE
    /\ selectedVehicleName = "null"
    /\ effectSel = "null"
    /\ gets = <<>>
    /\ lastGet = "none"
    /\ fleet = <<>>
    /\ fleetChanges = 0
    /\ post = NoPost
    /\ submitted = <<>>

\* the map components while another page is shown
MapIdle ==
    /\ table = <<>>
    /\ rawFeatures = <<>>
    /\ FetchIdle
    /\ mapRef = "null"
    /\ mapRemoved = FALSE
    /\ isMapLoaded = FALSE
    /\ channelState = "removed"
    /\ channel = <<>>
    /\ changes = 0
    /\ lpc = "waitLoad"
    /\ sourceData = <<>>
    /\ featureState = <<>>
    /\ styleLoaded = FALSE
    /\ fitted = FALSE
    /\ removedOps = {}
    /\ lastNotif = <<>>

InitMap ==
    /\ page \in MapPages
    /\ logged = {}
    /\ DispatchIdle
    /\ SimIdle
    /\ table \in InitialTables(page)
    /\ rawFeatures \in GeoFiles
    /\ FetchIdle
    /\ MapMounted

NextMap ==
    \/ LoadEvent
    \/ GeoFetchFail
    \/ GeoFetchOk
    \/ GeoJsonFail
    \/ GeoJsonOk
    \/ StyleSettle
    \/ ServePage
    \/ ServePageError
    \/ FetchPage
    \/ FetchPageError
    \/ Deliver
    \/ BackendUpdate
    \/ BackendInsert
    \/ BackendDelete
    \/ Unmount
    \/ ChannelRemoved

vars == <<page, logged, table, fetchVars, mapVars, dispatchVars, simVars>>

SpecMap == InitMap /\ [][NextMap]_vars


\* the paginated fetch is checked on tables of up to MaxPages full pages, give or take Slack rows
MaxPages == 2

Slack == 1

\* the osmids of a long table repeat with this period
IdCycle == 7

\* row i of a long table
LongRow(p, i) ==
    [osmid |-> Num(1 + (i % IdCycle)),
     val |-> IF i % 3 = 0 THEN Null
             ELSE IF i % 3 = 1 THEN CHOOSE v \in RowValues(p) : v \in {Str("lime"), Num(0)}
             ELSE CHOOSE v \in RowValues(p) : v \in {Str("red"), Num(3)}]

\* the sizes around the multiples of the page size
LongSizes == {n \in 0..(MaxPages * pageSize + Slack) :
                \E k \in 0..MaxPages, d \in (0 - Slack)..Slack : n = k * pageSize + d}

LongTables(p) == {[i \in 1..n |-> LongRow(p, i)] : n \in LongSizes}

\* the load handler at its call of fetchInitialSupabaseData: the map has loaded,
\* the GeoJSON is processed and set, the first page request is sent
InitSnapshot ==
    /\ page \in MapPages
    /\ logged = {}
    /\ DispatchIdle
    /\ SimIdle
    /\ table \in LongTables(page)
    /\ rawFeatures \in GeoFiles
    /\ fpc = "request"
    /\ from = 0
    /\ allRows = <<>>
    /\ got = 0
    /\ inflight = NoAnswer
    /\ fresult = <<>>
    /\ requests = <<<<0, pageSize - 1>>>>
    /\ mapRef = "map"
    /\ mapRemoved = FALSE
    /\ isMapLoaded = TRUE
    /\ channelState = "subscribed"
    /\ channel = <<>>
    /\ changes = 0
    /\ lpc = "snapshot"
    /\ sourceData = ProcessFeatures(rawFeatures)
    /\ featureState = <<>>
    /\ styleLoaded = FALSE
    /\ fitted = FALSE
    /\ removedOps = {}
    /\ lastNotif = <<>>

\* the snapshot fetch on a table that does not change
NextSnapshot ==
    \/ ServePage
    \/ ServePageError
    \/ FetchPage
    \/ FetchPageError
    \/ StyleSettle
    \/ Unmount

SpecSnapshot == InitSnapshot /\ [][NextSnapshot]_vars

\* every awaited page request settles, with rows or with an error, and the
\* function resumes when it has
SnapshotFairness ==
    /\ WF_vars(ServePage \/ ServePageError)
    /\ WF_vars(FetchPage)
    /\ WF_vars(FetchPageError)

SpecSnapshotFair == SpecSnapshot /\ SnapshotFairness


\* the GeoJSON processing is checked on files of up to MaxFeatures features
MaxFeatures == 2

\* the osmid properties of the features of a file
FeatureOsmids ==
    {Undefined, Null, Num(7), Str(<<"7">>), Str(<<"7", "a">>), Str(<<"a">>), Str(<<>>),
     Str(<<" ", "-", "7">>), Arr(<<>>), Arr(<<Str(<<"1">>), Str(<<"2", "1">>)>>),
     Arr(<<Str(<<"1">>), Str(<<"a">>)>>)}

\* the files of up to MaxFeatures features
WideGeoFiles ==
    UNION {[1..n -> {RawFeature(o, "LineString") : o \in FeatureOsmids}] : n \in 0..MaxFeatures}

\* the load handler with the GeoJSON response at hand
InitGeo ==
    /\ page \in MapPages
    /\ logged = {}
    /\ DispatchIdle
    /\ SimIdle
    /\ table = <<>>
    /\ rawFeatures \in WideGeoFiles
    /\ FetchIdle
    /\ mapRef = "map"
    /\ mapRemoved = FALSE
    /\ isMapLoaded = TRUE
    /\ channelState = "subscribed"
    /\ channel = <<>>
    /\ changes = 0
    /\ lpc = "jsonGeo"
    /\ sourceData = <<>>
    /\ featureState = <<>>
    /\ styleLoaded = TRUE
    /\ fitted = FALSE
    /\ removedOps = {}
    /\ lastNotif = <<>>

\* the processing of the GeoJSON file
NextGeo ==
    \/ GeoJsonOk
    \/ GeoJsonFail

SpecGeo == InitGeo /\ [][NextGeo]_vars

\* the dispatch page after its first render and effect: the first GET /vehicles is sent
DispatchMounted ==
    /\ vehicles = <<>>
    /\ isLoading = TRUE
    /\ error = "null"
    /\ dispatchStatusMessage = ""
    /\ dispatchError = "null"
    /\ isDispatching = FALSE
    /\ selectedVehicleName = "null"
    /\ effectSel = "null"
    /\ gets = <<[st |-> "sent", sel |-> "null", by |-> "effect", ok |-> TRUE, payload |-> <<>>]>>
    /\ lastGet = "none"
    /\ fleetChanges = 0
    /\ post = NoPost
    /\ submitted = <<>>

\* the dispatch page with coordinates in its form
InitDispatch ==
    /\ page = "Dispatch"
    /\ logged = {}
    /\ MapIdle
    /\ SimIdle
    /\ DispatchMounted
    /\ latitude = <<"4", "5">>
    /\ longitude = <<"9", "1">>
    /\ fleet \in Fleets

\* the vehicle list's fetches and the dispatches
NextDispatch ==
    \/ PollingEffect
    \/ Poll
    \/ ServeGet
    \/ GetDone
    \/ SelectIncident
    \/ HandleDispatch
    \/ ServePost
    \/ PostDone
    \/ BackendFleetChange

SpecDispatch == InitDispatch /\ [][NextDispatch]_vars

\* every request the page has sent settles, and the function awaiting it resumes
DispatchFairness ==
    /\ WF_vars(ServePost)
    /\ WF_vars(PostDone)
    /\ WF_vars(ServeGet)
    /\ WF_vars(GetDone)

SpecDispatchFair == SpecDispatch /\ DispatchFairness

\* the contents of a coordinate field that handleDispatch is checked on
CoordinateStrings ==
    { <<>>, <<"a">>, <<"-">>, <<".">>, <<"0">>, <<"4", "5">>, <<"4", "5", "a">>, <<" ", "1", "2">>,
      <<".", "5">>, <<"-", ".", "5">>, <<"5", ".">>, <<"9", "0">>, <<"-", "9", "0">>,
      <<"9", "1">>, <<"-", "9", "1">>, <<"9", "0", ".", "5">>, <<"8", "9", ".", "5">>,
      <<"9", "0", ".", "0">>, <<"1", "8", "0">>, <<"-", "1", "8", "0">>, <<"1", "8", "1">>,
      <<"1", "8", "0", ".", "5">>, <<"1", "e", "2">>, <<"9", "e", "1">>, <<"1", "e", "3">>,
      <<"1", "e">>, <<"9", "0", "0", "e", "-", "1">>,
      <<"I", "n", "f", "i", "n", "i", "t", "y">> }

\* the dispatch page with its form filled in
InitForm ==
    /\ page = "Dispatch"
    /\ logged = {}
    /\ MapIdle
    /\ SimIdle
    /\ DispatchMounted
    /\ latitude \in CoordinateStrings
    /\ longitude \in CoordinateStrings
    /\ fleet = <<Vehicle("A", "ready")>>

\* the submission of the form and what follows it
NextForm ==
    \/ SetLatitude
    \/ SetLongitude
    \/ HandleDispatch
    \/ ServePost
    \/ PostDone
    \/ ServeGet
    \/ GetDone

SpecForm == InitForm /\ [][NextForm]_vars

\* the Home page after its first render
InitSim ==
    /\ page = "Home"
    /\ logged = {}
    /\ MapIdle
    /\ DispatchIdle
    /\ homeMounted = TRUE
    /\ tab = "emergency"
    /\ activeEmergency = FALSE
    /\ emergencyType = "null"
    /\ isSimulationRunning = FALSE
    /\ simulationTime = 0
    /\ incidentReports = <<>>
    /\ timers = {}
    /\ lastFired = NoTimer
    /\ aiMounted = FALSE
    /\ aiInst = 0
    /\ reasoningSteps = <<>>
    /\ isThinking = FALSE
    /\ agents = [i \in 1..NumAgents |-> NormalAgent]
    /\ rafPending = FALSE

NextSim ==
    \/ TriggerEmergency
    \/ FireReport
    \/ FireInterval
    \/ OpenAITab
    \/ SelectTab
    \/ FireAIStep
    \/ FireCoordinating
    \/ FireEmergencyMode
    \/ Frame
    \/ HomeUnmount
    \/ Tick

SpecSim == InitSim /\ [][NextSim]_vars

\* the event loop runs the callback of a timer that is due, and time passes
SimFairness ==
    /\ WF_vars(Tick)
    /\ WF_vars(FireReport)
    /\ WF_vars(FireInterval)
    /\ WF_vars(FireAIStep)
    /\ WF_vars(FireCoordinating)
    /\ WF_vars(FireEmergencyMode)

SpecSimFair == InitSim /\ [][NextSim]_vars /\ SimFairness

\* a map component or the dispatch page
InitApp == InitMap \/ InitDispatch

NextApp == NextMap \/ NextDispatch

SpecApp == InitApp /\ [][NextApp]_vars

(***************************************************************************)
(* Properties of the realtime map components                               *)
(***************************************************************************)

\* C1: after any sequence of notifications delivered after 'load' whose osmid
\* converts to a number, the feature state of each feature id is the value of
\* the last notification delivered for that id (null mapped to the default)
C1_StateIsLastNotification ==
    \A id \in DOMAIN lastNotif :
        id \in DOMAIN featureState /\ featureState[id] = lastNotif[id]

\* C5: when a page request of the snapshot fetch returned an error,
\* fetchInitialSupabaseData has returned the empty list whatever pages it had
\* fetched, no feature state has been set from the snapshot, and the load
\* handler has gone on to its end, fitting the map to the bounds there are
C5_SnapshotErrorReturnsEmpty ==
    ("snapshot" \in logged) =>
        /\ fpc = "returned"
        /\ fresult = <<>>
        /\ featureState = <<>>
        /\ lpc = "done"
        /\ (BoundsNotEmpty(sourceData) /\ ~mapRemoved) => fitted

\* a request failed after a full page had been fetched; the map is fitted all the same
C5_Witness ==
    /\ "snapshot" \in logged
    /\ Len(allRows) >= 1000
    /\ fresult = <<>>
    /\ featureState = <<>>
    /\ fitted

\* C6: on a table of N rows that does not change, without a request error, the
\* requested ranges are [0, 999], [1000, 1999], ... and the fetch returns the N
\* rows of the table, each once and in id order, after floor(N / 1000) + 1 requests
C6_PaginationReturnsAllRows ==
    /\ \A k \in 1..Len(requests) : requests[k] = <<(k - 1) * 1000, (k - 1) * 1000 + 999>>
    /\ (fpc = "returned" /\ "snapshot" \notin logged) =>
          /\ fresult = table
          /\ Len(requests) = (Len(table) \div 1000) + 1

\* a table of two full pages is fetched with three requests, the last page empty
C6_Witness ==
    /\ fpc = "returned"
    /\ "snapshot" \notin logged
    /\ Len(table) = 2000
    /\ fresult = table
    /\ Len(requests) = 3
    /\ got = 0

\* the text of s begins, after white space, with the decimal numeral of n
HasLeadingInt(s, n) ==
    LET t == TrimStart(s)
        c == IntToChars(n)
    IN  /\ Len(t) >= Len(c)
        /\ SubSeq(t, 1, Len(c)) = c
        /\ (Len(t) > Len(c) => ~IsDigit(t[Len(c) + 1]))

\* the text of s does not begin, after white space, with a decimal numeral
HasNoLeadingInt(s) ==
    LET t == TrimStart(s)
    IN  \/ t = <<>>
        \/ ~IsDigit(t[1]) /\ (t[1] # "-" \/ Len(t) = 1 \/ ~IsDigit(t[2]))

\* the processed feature f has the id that its osmid o (a property value, or an
\* element of the array) stands for
IdOfOsmid(f, o) ==
    \/ o.k = "num" /\ f.id = o
    \/ o.k = "str" /\ f.id.k = "num" /\ HasLeadingInt(o.v, f.id.v)
    \/ o.k = "str" /\ f.id = NaN /\ HasNoLeadingInt(o.v)

\* C7 as stated: every feature handed to the source carries a numeric id
C7_EveryFeatureHasNumericId ==
    \A i \in 1..Len(sourceData) : sourceData[i].id.k = "num"

\* C7: a processed feature whose osmid is a number, or a string that begins
\* with a decimal numeral, carries that number as its id (a feature with an
\* array osmid: one of the array's elements); a feature whose osmid string has no
\* leading numeral carries NaN, and a feature without osmid carries no id
C7_FeatureIdFollowsOsmid ==
    \A i \in 1..Len(sourceData) :
        LET f == sourceData[i]
        IN  CASE f.osmid.k = "arr" ->
                    \E j \in 1..Len(f.osmid.v) : IdOfOsmid(f, f.osmid.v[j])
              [] f.osmid.k \in {"undef", "null"} -> f.id = Undefined
              [] OTHER -> IdOfOsmid(f, f.osmid)

\* a file is processed into a feature with a numeric id taken from a partly
\* numeric string and a feature without id
C7_Witness ==
    /\ lpc = "snapshot"
    /\ \E i \in 1..Len(sourceData) :
          sourceData[i].osmid = Str(<<"7", "a">>) /\ sourceData[i].id = Num(7)
    /\ \E i \in 1..Len(sourceData) : sourceData[i].id = Undefined

\* the rows of the backend's table that a notification would apply to feature id
RowsOfFeature(id) ==
    {i \in 1..Len(table) : ToNumber(table[i].osmid) = Num(id)}

\* C11: once the load handler has applied its snapshot and every published
\* notification has been delivered, the state of every feature that rows of
\* the table address is the value the backend holds (and has published) for
\* one of these rows: no older snapshot value has replaced a notification's
C11_SnapshotNeverOverwritesNewer ==
    (lpc = "done" /\ Len(fresult) > 0 /\ channelState = "subscribed" /\ channel = <<>>) =>
        \A id \in DOMAIN featureState :
            RowsOfFeature(id) # {} =>
                \E i \in RowsOfFeature(id) : featureState[id] = StateValue(page, table[i].val)

\* a notification is delivered to a handler that finds the map loaded
DeliveredToLoadedMap ==
    /\ channel # <<>>
    /\ channel' = Tail(channel)
    /\ mapRef # "null"
    /\ isMapLoaded

\* the load handler comes back from the snapshot fetch
SnapshotReturns == lpc = "snapshot" /\ lpc' = "done"

\* the feature state changes only with a notification delivered to a loaded
\* map or with the snapshot
StateChangesOnlyWhenLoaded ==
    featureState' # featureState => (DeliveredToLoadedMap \/ SnapshotReturns)

\* C12: a notification delivered before the map's 'load' event (or when the
\* map is gone) leaves the feature state as it is, and it is kept nowhere: no
\* feature state is set before 'load', and the 'load' event itself and every
\* step other than a later delivery or the snapshot leave the feature state unchanged
C12_NotificationBeforeLoadIsDropped ==
    /\ [](lpc = "waitLoad" => featureState = <<>>)
    /\ [][StateChangesOnlyWhenLoaded]_vars

\* the backend has published a change and the handler has consumed the
\* notification before 'load': nothing is set, nothing is left to deliver
C12_Witness ==
    /\ lpc = "waitLoad"
    /\ channelState = "subscribed"
    /\ changes > 0
    /\ Len(table) > 0
    /\ channel = <<>>
    /\ featureState = <<>>

\* C13: once the effect's cleanup has removed the map, no operation is invoked
\* on it: neither the realtime handler nor the continuation of the load
\* handler calls setData, setFeatureState or fitBounds on the removed map
C13_NoOperationOnRemovedMap == removedOps = {}

\* C14: when fetching or processing the GeoJSON file has failed, the load
\* handler has returned: nothing was handed to the source, the snapshot fetch
\* was never started, the map was not fitted, and the only feature state
\* there is has been set by notifications
C14_GeoJsonFailureEndsHandler ==
    ("geojson" \in logged) =>
        /\ lpc = "aborted"
        /\ fpc = "idle"
        /\ requests = <<>>
        /\ fresult = <<>>
        /\ sourceData = <<>>
        /\ ~fitted
        /\ \A id \in DOMAIN featureState :
              id \in DOMAIN lastNotif /\ featureState[id] = lastNotif[id]

\* the GeoJSON failed although there were features to show and rows to
\* fetch, and the realtime handler goes on working on the loaded map
C14_Witness ==
    /\ "geojson" \in logged
    /\ lpc = "aborted"
    /\ Len(rawFeatures) > 0
    /\ Len(table) > 0
    /\ isMapLoaded
    /\ featureState # <<>>

\* the fetch has ended at a page of fewer than 1000 rows or at a request error
EndedAtShortPageOrError ==
    fpc = "returned" => ("snapshot" \in logged \/ got < 1000)

\* every page before the one requested last was a full page
EarlierPagesFull == Len(allRows) >= 1000 * (Len(requests) - 1)

\* C15: on a table that does not change, with every request answered, the
\* paginated snapshot fetch returns; it goes on only after full pages and ends
\* at the first page of fewer than 1000 rows or at the first request error
C15_SnapshotFetchTerminates ==
    /\ [](EndedAtShortPageOrError /\ EarlierPagesFull)
    /\ <>(fpc = "returned")

\* the fetch has returned after more than one request, at a short page that is not empty
C15_Witness ==
    /\ fpc = "returned"
    /\ "snapshot" \notin logged
    /\ Len(requests) > 1
    /\ got > 0
    /\ got < 1000
    /\ Len(fresult) = Len(table)

\* the number of features that the feature f of the file is processed into:
\* one per element of an array osmid (none for the empty array), one otherwise
OutCount(f) == IF f.osmid.k = "arr" THEN Len(f.osmid.v) ELSE 1

\* that number by the formula max(1, n)
OutCountAtLeastOne(f) == IF f.osmid.k = "arr" THEN Max({1, Len(f.osmid.v)}) ELSE 1

\* the number of processed features that come from the first i features of the file
RECURSIVE OutOffset(_, _)
OutOffset(raw, i) ==
    IF i = 0 THEN 0 ELSE OutOffset(raw, i - 1) + OutCount(raw[i])

\* the same number by the formula max(1, n)
RECURSIVE OutOffsetAtLeastOne(_, _)
OutOffsetAtLeastOne(raw, i) ==
    IF i = 0 THEN 0 ELSE OutOffsetAtLeastOne(raw, i - 1) + OutCountAtLeastOne(raw[i])

\* the processed features are, file feature after file feature, the clones of
\* an array osmid (element j giving the id parseInt(element, 10)) or the one
\* feature itself, with the geometry and the osmid of the file's feature
SplitInOrder ==
    \A i \in 1..Len(rawFeatures) :
        \A j \in 1..OutCount(rawFeatures[i]) :
            LET k == OutOffset(rawFeatures, i - 1) + j
                raw == rawFeatures[i]
            IN  /\ k <= Len(sourceData)
                /\ sourceData[k].geom = raw.geom
                /\ sourceData[k].osmid = raw.osmid
                /\ raw.osmid.k = "arr" => sourceData[k].id = ParseInt(raw.osmid.v[j])

\* C16 as stated: the processed features are the split features in input
\* order, and their number is the sum over the file's features of max(1, n)
C16_SplitCountAtLeastOne ==
    lpc = "snapshot" =>
        /\ SplitInOrder
        /\ Len(sourceData) = OutOffsetAtLeastOne(rawFeatures, Len(rawFeatures))

\* C16: a feature whose osmid is an array of n elements is processed into n
\* features (none when the array is empty), one per element in the array's
\* order with id parseInt(element, 10) and the feature's geometry; any other
\* feature into one; the processed features keep the file's order, and their
\* number is the sum of these counts
C16_SplitPerArrayElement ==
    lpc = "snapshot" =>
        /\ SplitInOrder
        /\ Len(sourceData) = OutOffset(rawFeatures, Len(rawFeatures))

\* a file of a two-element array feature followed by a feature with a single
\* osmid has been processed into three features
C16_Witness ==
    /\ lpc = "snapshot"
    /\ Len(rawFeatures) = 2
    /\ rawFeatures[1].osmid.k = "arr"
    /\ Len(rawFeatures[1].osmid.v) = 2
    /\ rawFeatures[2].osmid.k = "num"
    /\ Len(sourceData) = 3
    /\ sourceData[2].id = Num(21)

\* the feature id the realtime handler of Map sets for a notification
\* carrying row (NaN: the notification is skipped)
RealtimeFeatureId(row) ==
    IF RealtimeApplies("Map", row) THEN ToNumber(row.osmid) ELSE NaN

\* C17: in Map the snapshot path and the realtime path agree on the feature a
\* row addresses: for every row the snapshot fetch has returned, both skip it
\* or both set the state of the same numeric feature id, and both put
\* "unknown" for a null viz_color
C17_SnapshotAndRealtimeAgree ==
    (page = "Map" /\ lpc = "done") =>
        \A i \in 1..Len(fresult) :
            /\ SnapshotFeatureId("Map", fresult[i]) = RealtimeFeatureId(fresult[i])
            /\ StateValue("Map", fresult[i].val) = NotifValue("Map", fresult[i].val)

(***************************************************************************)
(* Properties of the dispatch page                                         *)
(***************************************************************************)

\* C2: whenever no GET /vehicles request is in flight, vehicles is the payload
\* of the request that was started last, the empty list if that request failed
C2_VehiclesMirrorLatestRequest ==
    (gets # <<>> /\ \A i \in 1..Len(gets) : gets[i].st = "done") =>
        vehicles = gets[Len(gets)].payload

\* both fields parse to numbers, the latitude within [-90, 90] and the longitude within [-180, 180]
FieldsValid(lat, lon) ==
    LET a == ParseFloatChars(lat)
        b == ParseFloatChars(lon)
    IN  /\ a.k = "dec"
        /\ b.k = "dec"
        /\ ~LessThan(a, -90) /\ ~GreaterThan(a, 90)
        /\ ~LessThan(b, -180) /\ ~GreaterThan(b, 180)

\* C3: handleDispatch sends the POST exactly when both fields parse to numbers
\* in range, with the body {latitude, longitude} of the parsed values; for any
\* other contents it sends no request, sets dispatchError and leaves
\* isDispatching false
C3_DispatchOnlyValidCoordinates ==
    /\ \A i \in 1..Len(submitted) :
          LET sub == submitted[i]
          IN  /\ sub.sent <=> FieldsValid(sub.latitude, sub.longitude)
              /\ sub.sent => (sub.body = [latitude |-> ParseFloatChars(sub.latitude),
                                          longitude |-> ParseFloatChars(sub.longitude)])
              /\ ~sub.sent => sub.body = NoBody
    /\ post.st # "idle" => (submitted # <<>> /\ submitted[Len(submitted)].sent)
    /\ (submitted # <<>> /\ ~submitted[Len(submitted)].sent) =>
          /\ dispatchError \in {"Please enter valid numeric coordinates.",
                                "Coordinates out of valid range."}
          /\ ~isDispatching
          /\ post.st = "idle"

\* a latitude with trailing letters was dispatched with its numeric prefix, and
\* the submission of the cleared form after it was refused
C3_Witness ==
    /\ Len(submitted) = 2
    /\ submitted[1].latitude = <<"4", "5", "a">>
    /\ submitted[1].sent
    /\ submitted[1].body.latitude = Dec(45, 0)
    /\ ~submitted[2].sent
    /\ dispatchError = "Please enter valid numeric coordinates."

\* the messages of the dispatch form
DispatchFormErrors ==
    {"Please enter valid numeric coordinates.", "Coordinates out of valid range.", "Dispatch failed"}

C18_DispatchingWhilePostOutstanding ==
    /\ [](isDispatching <=> post.st \in {"sent", "answered", "refreshing"})
    /\ (isDispatching ~> ~isDispatching)

\* a dispatch has failed and isDispatching is false again, and of another
\* dispatch the refresh of the vehicles is still outstanding
C18_Witness ==
    /\ "dispatch" \in logged
    /\ Len(submitted) = 2
    /\ post.st = "refreshing"
    /\ isDispatching

\* C19: the dispatch page never holds a dispatch error and a dispatch status
\* message together: at most one of dispatchError and dispatchStatusMessage is set
C19_ErrorAndStatusExclusive ==
    ~(dispatchError # "null" /\ dispatchStatusMessage # "")

\* a dispatch has failed after its request was sent: the error is shown and
\* the message "Dispatching..." is gone
C19_Witness ==
    /\ dispatchError = "Dispatch failed"
    /\ dispatchStatusMessage = ""
    /\ submitted # <<>>
    /\ submitted[Len(submitted)].sent

\* handleDispatch resumes with an OK response
DispatchSucceeds == post.st = "answered" /\ post'.st = "refreshing"

\* handleDispatch ends at its validation, or resumes with a failure
DispatchFails ==
    \/ Len(submitted') > Len(submitted) /\ ~submitted'[Len(submitted')].sent
    \/ post.st = "answered" /\ post'.st = "idle"

\* handleDispatch ends after the refresh it awaited
DispatchEndsAfterRefresh ==
    (isDispatching /\ ~isDispatching' /\ post.st = "refreshing") =>
        \E i \in 1..Len(gets) :
            gets[i].by = "dispatch" /\ gets[i].st = "answered" /\ gets'[i].st = "done"

\* what a step of handleDispatch changes and what it leaves alone
DispatchFrame ==
    /\ DispatchSucceeds =>
          /\ latitude' = <<>>
          /\ longitude' = <<>>
          /\ dispatchStatusMessage' \in {"backend message", "Dispatch successful!"}
          /\ dispatchStatusMessage' = "backend message" <=> post.outcome = "message"
          /\ Len(gets') = Len(gets) + 1
          /\ gets'[Len(gets')].st = "sent"
          /\ isDispatching'
    /\ DispatchFails => UNCHANGED <<latitude, longitude, vehicles>>
    /\ DispatchEndsAfterRefresh

\* C20: a successful dispatch clears both coordinate fields, shows the
\* backend's message (or "Dispatch successful!") and starts a refresh of the
\* vehicles while isDispatching is still true, which is reset only when that
\* refresh has ended; a dispatch that fails at validation, with a non-OK
\* response or with an exception leaves both fields and the vehicles as they were
C20_DispatchFrameEffects == [][DispatchFrame]_vars

\* a dispatch of typed coordinates has succeeded without a message of the
\* backend: the fields are empty and the refresh of the vehicles is under way
C20_Witness ==
    /\ post.st = "refreshing"
    /\ post.outcome = "nomessage"
    /\ submitted[Len(submitted)].latitude = <<"4", "5">>
    /\ latitude = <<>>
    /\ longitude = <<>>
    /\ dispatchStatusMessage = "Dispatch successful!"
    /\ isDispatching
    /\ \E i \in 1..Len(gets) : gets[i].by = "dispatch" /\ gets[i].st = "sent"

(***************************************************************************)
(* Properties of the Home page's timer-driven panels                       *)
(***************************************************************************)

\* the list shows steps that follow one another, none twice and none left out
\* between two; during an emergency it starts with the first step and the
\* thinking has ended only if it shows all 11 steps
PlaybackInOrder ==
    /\ \A i \in 1..(Len(reasoningSteps) - 1) : reasoningSteps[i + 1] = reasoningSteps[i] + 1
    /\ (aiMounted /\ activeEmergency /\ reasoningSteps # <<>>) => reasoningSteps[1] = 1
    /\ (aiMounted /\ activeEmergency /\ ~isThinking) => reasoningSteps = [i \in 1..11 |-> i]

\* the thinking of the mounted panel ends in no other step than the one that appends step 11
ThinkingEndsWithLastStep ==
    (aiMounted /\ isThinking /\ aiMounted' /\ ~isThinking') =>
        /\ lastFired'.kind = "ai"
        /\ lastFired'.idx = 11
        /\ reasoningSteps' = Append(reasoningSteps, 11)

\* C8: during an emergency AIReasoningPanel appends the steps of its list in
\* list order, each once, and isThinking becomes false only in the step that
\* appends the last one: the panel never reports the analysis as complete with
\* fewer than 11 steps
C8_StepsPlayedInOrder == [](PlaybackInOrder) /\ [][ThinkingEndsWithLastStep]_vars

\* the panel has played all 11 steps and reports the analysis as complete
C8_Witness ==
    /\ aiMounted
    /\ activeEmergency
    /\ ~isThinking
    /\ Len(reasoningSteps) = 11

\* the timers of the mock sequences that are pending
MockTimers == {t \in timers : t.kind \in {"report", "ai", "coord", "emerg"}}

\* a pending timer of a mock sequence is pending after the step unless the step ran its callback
RemovedOnlyByFiring ==
    \A t \in MockTimers :
        (TimerId(t) \notin {TimerId(u) : u \in timers'}) => lastFired' = TimerId(t)

\* C9: a timer of a mock sequence (reasoning step, agent transition, incident
\* report), once set, is never cancelled, whether the emergency ends or the
\* props change: it stays pending until its callback runs, and the callback of
\* every timer set does run
C9_TimersFireAndForget == [][RemovedOnlyByFiring]_vars /\ <>[](MockTimers = {})

\* a reasoning step of the mounted panel is appended after the emergency has ended
C9_Witness ==
    /\ lastFired.kind = "ai"
    /\ homeMounted
    /\ aiMounted
    /\ lastFired.inst = aiInst
    /\ ~activeEmergency
    /\ reasoningSteps # <<>>

\* C10: no timer, interval or animation frame callback of a component runs
\* after the component was unmounted
C10_NoCallbackAfterUnmount ==
    /\ lastFired.kind = "ai" => (homeMounted /\ aiMounted /\ lastFired.inst = aiInst)
    /\ lastFired.kind \in {"report", "interval", "coord", "emerg", "frame"} => homeMounted

\* the changes of status an agent makes in a step: from "normal" to
\* "coordinating", from "coordinating" to "emergency", and back to "normal"
\* from either
PhaseStep(i) ==
    \/ agents'[i].status = agents[i].status
    \/ agents[i].status = "normal" /\ agents'[i].status = "coordinating"
    \/ agents[i].status = "coordinating" /\ agents'[i].status = "emergency"
    \/ agents'[i].status = "normal"

\* the agents that have left "normal" are the first ones, and they have left
\* it during an emergency
CoordinatingInIndexOrder ==
    \A i \in 1..NumAgents :
        agents[i].status # "normal" =>
            /\ activeEmergency
            /\ \A j \in 1..(i - 1) : agents[j].status # "normal"

\* what the agents show: agent i of the model has index i - 1 in the code
MessageOfPhase ==
    \A i \in 1..NumAgents :
        /\ agents[i].status = "normal" => agents[i].message = "Normal operation"
        /\ agents[i].status = "coordinating" => agents[i].message = "Receiving emergency signal..."
        /\ agents[i].status = "emergency" =>
              agents[i].message = IF i \in {1, 3} THEN "Prioritizing north-south flow"
                                  ELSE "Prioritizing east-west flow"

\* C21: during an emergency every traffic light agent goes through its phases
\* in order, from "normal" to "coordinating" and only then to "emergency",
\* never from "normal" straight to "emergency" and never from "emergency" back
\* to "coordinating"; the agents turn to "coordinating" in index order; and in
\* "emergency" the agents of even index prioritize the north-south flow, those
\* of odd index the east-west flow
C21_AgentPhasesInOrder ==
    /\ [](CoordinatingInIndexOrder /\ MessageOfPhase)
    /\ [][\A i \in 1..NumAgents : PhaseStep(i)]_vars

\* all four agents have reached "emergency" while the emergency is on
C21_Witness ==
    /\ homeMounted
    /\ activeEmergency
    /\ \A i \in 1..NumAgents : agents[i].status = "emergency"

====
